---- MODULE Spec2Model ----
(***************************************************************************)
(* Role-aware retrieval and filtering layer of the resume assistant:       *)
(* role tagging (document_processor/loader.py), role-filtered retrieval    *)
(* (utils/resume_info.py) and source attribution (interface/tabs.py).      *)
(*                                                                         *)
(* Python strings are modelled as sequences of one-character strings, so   *)
(* that lower(), the `in` substring test, split() and the regular          *)
(* expression of the name heuristic are computed character by character.   *)
(***************************************************************************)
EXTENDS Integers, Sequences, FiniteSets, TLC

\* ------------------------------------------------------------------ bounds
\* fragments concatenated into one page text (role tagging inputs)
MaxTextFrags == 2
\* fragments concatenated into one query (name heuristic inputs)
MaxQueryFrags == 3
\* source documents handed to filter_sources_by_context
MaxSources == 4
\* largest index whose every ranking is enumerated
MaxPermute == 2
\* pages of the long sample resume (more than k_fallback chunks)
BigPages == 101
\* processing runs of one session that write the index
MaxBuilds == 2
\* the filler characters of the page that is longer than one chunk
LongPageFill == 1100

\* ------------------------------------------------------- Python str helpers
UpperCs == <<"A","B","C","D","E","F","G","H","I","J","K","L","M","N","O","P","Q","R","S","T","U","V","W","X","Y","Z">>
LowerCs == <<"a","b","c","d","e","f","g","h","i","j","k","l","m","n","o","p","q","r","s","t","u","v","w","x","y","z">>
DigitCs == <<"0","1","2","3","4","5","6","7","8","9">>
\* str.isspace() / the regex class \s: blank, tab, newline
SpaceCs == <<" ", "\t", "\n">>

Range(s) == {s[i] : i \in 1..Len(s)}

UpperSet == Range(UpperCs)
LowerSet == Range(LowerCs)
DigitSet == Range(DigitCs)
SpaceSet == Range(SpaceCs)

IsUpper(c) == c \in UpperSet
IsLower(c) == c \in LowerSet
IsSpace(c) == c \in SpaceSet
\* the regex class \w: letters, digits and the underscore
IsWordChar(c) == IsUpper(c) \/ IsLower(c) \/ c \in DigitSet \/ c = "_"

\* str.lower() on one character
LowerChar(c) ==
    IF IsUpper(c) THEN LowerCs[CHOOSE i \in 1..Len(UpperCs) : UpperCs[i] = c] ELSE c

\* str.lower()
lower(s) == [i \in 1..Len(s) |-> LowerChar(s[i])]

\* Python `sub in s` for strings
Contains(sub, s) ==
    \E i \in 0..(Len(s) - Len(sub)) : SubSeq(s, i + 1, i + Len(sub)) = sub

\* `any(keyword in s for keyword in keywords)`
AnyKeywordIn(keywords, s) == \E k \in 1..Len(keywords) : Contains(keywords[k], s)

RECURSIVE Concat(_)
\* "".join(parts)
Concat(parts) == IF parts = <<>> THEN <<>> ELSE Head(parts) \o Concat(Tail(parts))

\* all sequences over S of length at most n
SeqsUpTo(S, n) == UNION {[1..k -> S] : k \in 0..n}

\* dict.get(key, default) on a document's metadata
MetaGet(metadata, key, default) ==
    IF key \in DOMAIN metadata THEN metadata[key] ELSE default

\* ------------------------------------------------------------ role tagging
UnknownRole == "Unknown Role"

\* a role_keywords dict that declares 'Data Scientist' before 'AI Engineer'
RoleOrder_DataScientistFirst ==
    << "Data Scientist", "AI Engineer", "Geomatics Engineer", "Software Engineer",
       "UI/UX Designer", "Project Manager", "DevOps Engineer", "Business Analyst",
       "Network Engineer" >>

\* loader.py role_keywords: the roles in dict insertion order, which is the
\* order `for role, keywords in role_keywords.items()` visits them
RoleOrder ==
    << "AI Engineer", "Geomatics Engineer", "Data Scientist", "Software Engineer",
       "UI/UX Designer", "Project Manager", "DevOps Engineer", "Business Analyst",
       "Network Engineer" >>

role_keywords(role) ==
    CASE role = "AI Engineer" ->
           << <<"a","i"," ","e","n","g","i","n","e","e","r">>, <<"a","r","t","i","f","i","c","i","a","l"," ","i","n","t","e","l","l","i","g","e","n","c","e"," ","e","n","g","i","n","e","e","r">>,
              <<"m","a","c","h","i","n","e"," ","l","e","a","r","n","i","n","g"," ","e","n","g","i","n","e","e","r">>, <<"m","l"," ","e","n","g","i","n","e","e","r">> >>
      [] role = "Geomatics Engineer" ->
           << <<"g","e","o","m","a","t","i","c","s"," ","e","n","g","i","n","e","e","r">>, <<"g","e","o","m","a","t","i","c","s">>, <<"g","e","o","s","p","a","t","i","a","l"," ","e","n","g","i","n","e","e","r">>,
              <<"g","e","o","d","e","t","i","c"," ","e","n","g","i","n","e","e","r">> >>
      [] role = "Data Scientist" ->
           << <<"d","a","t","a"," ","s","c","i","e","n","t","i","s","t">>, <<"d","a","t","a"," ","s","c","i","e","n","c","e">>, <<"a","n","a","l","y","t","i","c","s"," ","s","c","i","e","n","t","i","s","t">>,
              <<"d","a","t","a"," ","a","n","a","l","y","s","t">> >>
      [] role = "Software Engineer" ->
           << <<"s","o","f","t","w","a","r","e"," ","e","n","g","i","n","e","e","r">>, <<"s","o","f","t","w","a","r","e"," ","d","e","v","e","l","o","p","e","r">>, <<"p","r","o","g","r","a","m","m","e","r">>,
              <<"d","e","v","e","l","o","p","e","r">> >>
      [] role = "UI/UX Designer" ->
           << <<"u","i"," ","d","e","s","i","g","n","e","r">>, <<"u","x"," ","d","e","s","i","g","n","e","r">>, <<"u","i","/","u","x">>, <<"u","s","e","r"," ","i","n","t","e","r","f","a","c","e">>,
              <<"u","s","e","r"," ","e","x","p","e","r","i","e","n","c","e">>, <<"p","r","o","d","u","c","t"," ","d","e","s","i","g","n","e","r">> >>
      [] role = "Project Manager" ->
           << <<"p","r","o","j","e","c","t"," ","m","a","n","a","g","e","r">>, <<"p","r","o","g","r","a","m"," ","m","a","n","a","g","e","r">>, <<"p","r","o","d","u","c","t"," ","m","a","n","a","g","e","r">>,
              <<"s","c","r","u","m"," ","m","a","s","t","e","r">> >>
      [] role = "DevOps Engineer" ->
           << <<"d","e","v","o","p","s">>, <<"d","e","v","o","p","s"," ","e","n","g","i","n","e","e","r">>, <<"s","i","t","e"," ","r","e","l","i","a","b","i","l","i","t","y"," ","e","n","g","i","n","e","e","r">>, <<"s","r","e">> >>
      [] role = "Business Analyst" ->
           << <<"b","u","s","i","n","e","s","s"," ","a","n","a","l","y","s","t">>, <<"b","u","s","i","n","e","s","s"," ","a","n","a","l","y","t","i","c","s">>, <<"s","y","s","t","e","m","s"," ","a","n","a","l","y","s","t">> >>
      [] role = "Network Engineer" ->
           << <<"n","e","t","w","o","r","k"," ","e","n","g","i","n","e","e","r">>, <<"n","e","t","w","o","r","k"," ","a","d","m","i","n","i","s","t","r","a","t","o","r">>, <<"n","e","t","w","o","r","k"," ","a","r","c","h","i","t","e","c","t">> >>

\* a tagger that looks at the page text only
KeywordHit_ContentOnly(role, content_lower, filename) ==
    AnyKeywordIn(role_keywords(role), content_lower)

\* the condition of the `if` at loader.py:49-50
KeywordHit(role, content_lower, filename) ==
    \/ AnyKeywordIn(role_keywords(role), content_lower)
    \/ AnyKeywordIn(role_keywords(role), lower(filename))

RECURSIVE RoleLoop(_, _, _)
\* the for loop at loader.py:48-52 from the i-th role on: break at the first hit
RoleLoop(i, content_lower, filename) ==
    IF i > Len(RoleOrder) THEN UnknownRole
    ELSE IF KeywordHit(RoleOrder[i], content_lower, filename) THEN RoleOrder[i]
    ELSE RoleLoop(i + 1, content_lower, filename)

\* loader.py:28-54: the role written to doc.metadata['role']
assigned_role(page_content, filename) == RoleLoop(1, lower(page_content), filename)

\* ------------------------------------------------ person-name heuristic
\* None / the empty string: both are falsy in `if not person_name`
NoName == <<>>

\* a pattern without the \b assertions
WordBoundary_Dropped(s, p) == TRUE

\* the regex assertion \b between s[p] and s[p+1] (p = 0: before the first
\* character, p = Len(s): after the last)
WordBoundary(s, p) ==
    (p >= 1 /\ IsWordChar(s[p])) # (p < Len(s) /\ IsWordChar(s[p + 1]))

\* the ways \b[A-Z][a-z]+\s+[A-Z][a-z]+\b matches starting at s[i]:
\* <<e1, w, e2>> = last character of the first word, of the whitespace run and
\* of the second word
MatchesAt(s, i) ==
    IF ~(WordBoundary(s, i - 1) /\ IsUpper(s[i])) THEN {}
    ELSE LET FirstWordEnds ==
                 {e \in (i + 1)..Len(s) : \A j \in (i + 1)..e : IsLower(s[j])}
             SpaceEnds(e1) ==
                 {w \in (e1 + 1)..Len(s) : \A j \in (e1 + 1)..w : IsSpace(s[j])}
             SecondWordEnds(w) ==
                 IF w + 1 <= Len(s) /\ IsUpper(s[w + 1])
                 THEN {e \in (w + 2)..Len(s) :
                          /\ \A j \in (w + 2)..e : IsLower(s[j])
                          /\ WordBoundary(s, e)}
                 ELSE {}
         IN  UNION { UNION { {<<e1, w, e2>> : e2 \in SecondWordEnds(w)} :
                             w \in SpaceEnds(e1) } :
                     e1 \in FirstWordEnds }

\* the match the backtracking engine reports at s[i]: every quantifier is
\* greedy, so the longest first word, then the longest whitespace run, then
\* the longest second word
GreedyMatch(s, i) ==
    CHOOSE m \in MatchesAt(s, i) :
        \A n \in MatchesAt(s, i) :
            \/ n[1] < m[1]
            \/ n[1] = m[1] /\ n[2] < m[2]
            \/ n[1] = m[1] /\ n[2] = m[2] /\ n[3] <= m[3]

RECURSIVE FirstMatchFrom(_, _)
\* re.findall(pattern, query)[0]: the scan tries each start position from the
\* left; <<0, ...>> when findall returns the empty list
FirstMatchFrom(s, i) ==
    IF i > Len(s) THEN <<0, <<0, 0, 0>>>>
    ELSE IF MatchesAt(s, i) # {} THEN <<i, GreedyMatch(s, i)>>
    ELSE FirstMatchFrom(s, i + 1)

\* tabs.py:9-29
extract_person_name_from_query(q) ==
    LET first == FirstMatchFrom(q, 1)   \* name_patterns[0]: one group
        i == first[1]
        m == first[2]
    IN  IF i # 0 THEN SubSeq(q, i, m[3])
        \* name_patterns[1]: the same expression with two groups: matches[0] is
        \* a tuple and the name is ' '.join(matches[0])
        ELSE LET second == FirstMatchFrom(q, 1)
                 i2 == second[1]
                 m2 == second[2]
             IN  IF i2 # 0
                 THEN SubSeq(q, i2, m2[1]) \o <<" ">> \o SubSeq(q, m2[2] + 1, m2[3])
                 ELSE NoName

RECURSIVE SplitFrom(_, _, _)
\* str.split(): the maximal runs of non-whitespace characters, left to right
SplitFrom(s, i, word) ==
    IF i > Len(s) THEN (IF word = <<>> THEN <<>> ELSE <<word>>)
    ELSE IF IsSpace(s[i])
         THEN (IF word = <<>> THEN <<>> ELSE <<word>>) \o SplitFrom(s, i + 1, <<>>)
         ELSE SplitFrom(s, i + 1, Append(word, s[i]))

split(s) == SplitFrom(s, 1, <<>>)

\* the test without name_part.lower()
NameInFilename_CaseSensitive(name, filename) ==
    \E k \in 1..Len(split(name)) : Contains(split(name)[k], filename)

\* tabs.py:43: any(name_part.lower() in filename for name_part in person_name.split())
NameInFilename(name, filename) ==
    \E k \in 1..Len(split(name)) : Contains(lower(split(name)[k]), filename)

\* the filter without the `if filtered_sources` guard of tabs.py:47
filter_sources_by_context_NoGuard(srcs, q, name_arg) ==
    LET name == IF name_arg = NoName THEN extract_person_name_from_query(q) ELSE name_arg
        Keep(doc) == NameInFilename(name, lower(MetaGet(doc.metadata, "filename", <<>>)))
    IN  IF name # NoName THEN SelectSeq(srcs, Keep) ELSE srcs

\* tabs.py:32-50
filter_sources_by_context(srcs, q, name_arg) ==
    LET name == IF name_arg = NoName THEN extract_person_name_from_query(q) ELSE name_arg
        Keep(doc) == NameInFilename(name, lower(MetaGet(doc.metadata, "filename", <<>>)))
        kept == SelectSeq(srcs, Keep)
    IN  IF name # NoName /\ kept # <<>> THEN kept ELSE srcs

\* ------------------------------------------------------- document loading
\* st.session_state.resume_dir (tempfile.mkdtemp(), app.py:38)
resume_dir == <<"/","t","m","p","/","r">>

\* os.path.join(resume_dir, name), app.py:141
os_path_join(dir, name) == dir \o <<"/">> \o name

RECURSIVE basename(_)
\* os.path.basename(path): what follows the last "/"
basename(path) ==
    IF \E i \in 1..Len(path) : path[i] = "/"
    THEN basename(SubSeq(path, (CHOOSE i \in 1..Len(path) : path[i] = "/") + 1, Len(path)))
    ELSE path

RECURSIVE LStrip(_)
LStrip(s) == IF s # <<>> /\ IsSpace(Head(s)) THEN LStrip(Tail(s)) ELSE s

RECURSIVE RStrip(_)
RStrip(s) ==
    IF s # <<>> /\ IsSpace(s[Len(s)]) THEN RStrip(SubSeq(s, 1, Len(s) - 1)) ELSE s

\* str.strip()
strip(s) == RStrip(LStrip(s))

\* PyPDFLoader(path).load(): one Document per page of the file
LoadFile(file) ==
    [p \in 1..Len(file.pages) |->
        [page_content |-> file.pages[p],
         metadata |-> [source |-> os_path_join(resume_dir, file.name), page |-> p - 1]]]

RECURSIVE LoadAll(_)
\* DirectoryLoader(...).load() over the files in listing order (loader.py:13-14)
LoadAll(files) ==
    IF files = <<>> THEN <<>> ELSE LoadFile(Head(files)) \o LoadAll(Tail(files))

\* a tagging that takes the source path for the filename
TagDocument_SourceAsFilename(doc) ==
    LET filename == MetaGet(doc.metadata, "source", <<"u","n","k","n","o","w","n">>)
    IN  [doc EXCEPT !.metadata =
            [source |-> doc.metadata.source, page |-> doc.metadata.page,
             filename |-> filename,
             role |-> assigned_role(doc.page_content, filename)]]

\* loader.py:22-54 for one page: filename and role are added to its metadata
TagDocument(doc) ==
    LET filename == basename(MetaGet(doc.metadata, "source", <<"u","n","k","n","o","w","n">>))
    IN  [doc EXCEPT !.metadata =
            [source |-> doc.metadata.source, page |-> doc.metadata.page,
             filename |-> filename,
             role |-> assigned_role(doc.page_content, filename)]]

\* loader.py:58-59
chunk_size == 1000
chunk_overlap == 200

RECURSIVE Windows(_, _)
\* hard character cut of a text longer than chunk_size: consecutive windows of
\* chunk_size characters, each starting chunk_size - chunk_overlap after the
\* previous one (what the recursive splitter falls back to when the text holds
\* no separator)
Windows(text, from) ==
    IF from + chunk_size - 1 >= Len(text)
    THEN <<SubSeq(text, from, Len(text))>>
    ELSE <<SubSeq(text, from, from + chunk_size - 1)>>
         \o Windows(text, from + chunk_size - chunk_overlap)

\* RecursiveCharacterTextSplitter.split_documents on one page (loader.py:57-61):
\* a text of at most chunk_size characters is one chunk, stripped of leading
\* and trailing whitespace, and a blank text gives no chunk; every chunk
\* carries a copy of its page's metadata
SplitDocument(doc) ==
    LET pieces == IF Len(doc.page_content) <= chunk_size
                  THEN <<doc.page_content>> ELSE Windows(doc.page_content, 1)
        stripped == [i \in 1..Len(pieces) |-> strip(pieces[i])]
        NonBlank(t) == t # <<>>
        kept == SelectSeq(stripped, NonBlank)
    IN  [i \in 1..Len(kept) |-> [page_content |-> kept[i], metadata |-> doc.metadata]]

RECURSIVE split_documents(_)
split_documents(documents) ==
    IF documents = <<>> THEN <<>>
    ELSE SplitDocument(Head(documents)) \o split_documents(Tail(documents))

\* process_pdfs returns None (modelled as the empty list: both are falsy in
\* `if not chunks`, app.py:151)
NoChunks == <<>>

RECURSIVE StickyRoles(_, _)
\* a tagging whose assigned_role is not reset for each document: a page
\* without a keyword keeps the role of the page before it
StickyRoles(documents, previous) ==
    IF documents = <<>> THEN <<>>
    ELSE LET tagged == TagDocument(Head(documents))
             role == IF tagged.metadata.role = UnknownRole THEN previous
                     ELSE tagged.metadata.role
         IN  <<[tagged EXCEPT !.metadata.role = role]>>
             \o StickyRoles(Tail(documents), role)

process_pdfs_StickyRole(files) ==
    IF \E i \in 1..Len(files) : ~files[i].readable THEN <<>>
    ELSE split_documents(StickyRoles(LoadAll(files), UnknownRole))

\* loader.py:9-68 on the files of the directory in listing order: loader.load()
\* raises on a file it cannot read, and the except clause returns None
process_pdfs(files) ==
    IF \E i \in 1..Len(files) : ~files[i].readable THEN NoChunks
    ELSE LET documents == LoadAll(files)
         IN  IF documents = <<>> THEN NoChunks
             ELSE split_documents([i \in 1..Len(documents) |-> TagDocument(documents[i])])

\* ------------------------------------------------------------ vector index
\* st.session_state.vectorstore = None (app.py:34)
NoStore == [docs |-> <<>>, created |-> FALSE]

\* the filter argument None
NoFilter == [none |-> TRUE]

Permute(s, ranking) == [i \in 1..Len(s) |-> s[ranking[i]]]

Min(a, b) == IF a <= b THEN a ELSE b

\* the orders in which an index of n chunks may rank its chunks for a query:
\* every permutation for a small index, and for a larger one the stored order
\* and its reverse
Rankings(n) ==
    IF n <= MaxPermute
    THEN {r \in [1..n -> 1..n] : \A i, j \in 1..n : i # j => r[i] # r[j]}
    ELSE {[i \in 1..n |-> i], [i \in 1..n |-> n + 1 - i]}

\* whether a document satisfies a metadata filter (exact match of every key)
MatchesFilter(doc, filter) ==
    \A key \in DOMAIN filter : MetaGet(doc.metadata, key, "(None)") = filter[key]

\* vectorstore.similarity_search(query, k, filter) when the backend honours
\* (or ignores) the filter and ranks the candidates by `ranking`: the k nearest
TopK(docs, k, filter, honours, ranking) ==
    LET Match(doc) == MatchesFilter(doc, filter)
        candidates == IF filter # NoFilter /\ honours THEN SelectSeq(docs, Match) ELSE docs
    IN  SubSeq(Permute(candidates, ranking), 1, Min(k, Len(candidates)))

\* what one call of similarity_search may do: raise, or return the k nearest
\* (of the chunks that pass the filter, if the backend honours it)
SearchOutcomes(store, k, filter) ==
    {[raised |-> TRUE, docs |-> <<>>]}
    \cup {[raised |-> FALSE, docs |-> TopK(store.docs, k, filter, FALSE, r)] :
            r \in Rankings(Len(store.docs))}
    \cup (IF filter = NoFilter THEN {}
          ELSE LET Match(doc) == MatchesFilter(doc, filter)
                   n == Len(SelectSeq(store.docs, Match))
               IN  {[raised |-> FALSE, docs |-> TopK(store.docs, k, filter, TRUE, r)] :
                       r \in Rankings(n)})

\* ----------------------------------------------------- get_resume_by_role
\* resume_info.py:14 and :23
k_first == 50
k_fallback == 100

\* the first tier without the post-filter, relying on the index's filter
FirstTierFilter_Trusting(docs, role) == docs

\* resume_info.py:19
FirstTierFilter(docs, role) ==
    LET Keep(doc) == MetaGet(doc.metadata, "role", "(None)") = role
    IN  SelectSeq(docs, Keep)

\* the fallback without the post-filter
FallbackFilter_Unfiltered(all_docs, role) == all_docs

\* resume_info.py:24
FallbackFilter(all_docs, role) ==
    LET Keep(doc) == MetaGet(doc.metadata, "role", "(None)") = role
    IN  SelectSeq(all_docs, Keep)

\* the empty dict
EmptyMapping == <<>>

\* a grouping that puts each new chunk in front of its file's list
AppendContent_Prepend(mapping, role, doc) ==
    LET filename == MetaGet(doc.metadata, "filename", <<"u","n","k","n","o","w","n">>)
    IN  IF filename \in DOMAIN mapping
        THEN [mapping EXCEPT ![filename].content = <<doc.page_content>> \o @]
        ELSE (filename :> [role |-> role, content |-> <<doc.page_content>>]) @@ mapping

\* resume_info.py:30-31: resumes[filename]['content'].append(doc.page_content)
\* on the defaultdict of resume_info.py:27
AppendContent(mapping, role, doc) ==
    LET filename == MetaGet(doc.metadata, "filename", <<"u","n","k","n","o","w","n">>)
    IN  IF filename \in DOMAIN mapping
        THEN [mapping EXCEPT ![filename].content = Append(@, doc.page_content)]
        ELSE (filename :> [role |-> role, content |-> <<doc.page_content>>]) @@ mapping

RECURSIVE GroupLoop(_, _, _)
\* the for loop at resume_info.py:29-31 (the membership test holds after every
\* append; evaluating it keeps the accumulated mapping a value, not a chain of
\* pending appends)
GroupLoop(filtered_docs, role, mapping) ==
    IF filtered_docs = <<>> THEN mapping
    ELSE LET doc == Head(filtered_docs)
             next == AppendContent(mapping, role, doc)
         IN  IF MetaGet(doc.metadata, "filename", <<"u","n","k","n","o","w","n">>) \in DOMAIN next
             THEN GroupLoop(Tail(filtered_docs), role, next)
             ELSE next

\* resume_info.py:26-33
GroupByFilename(filtered_docs, role) == GroupLoop(filtered_docs, role, EmptyMapping)

\* the arguments of the first and of the second similarity_search call
FirstQuery(role, has_filter) ==
    [query |-> <<"role", role>>, k |-> k_first,
     filter |-> IF has_filter THEN [role |-> role] ELSE NoFilter]

FallbackQuery(role) == [query |-> <<role>>, k |-> k_fallback, filter |-> NoFilter]

\* a lookup that never broadens its search
NeedsFallback_Never(filtered_docs) == FALSE

\* whether the second search is issued (resume_info.py:21)
NeedsFallback(filtered_docs) == filtered_docs = <<>>

\* resume_info.py:8-37, given hasattr(vectorstore, 'filter') and what the first
\* and (if issued) the second similarity_search do; returns the mapping
\* together with the searches issued and the st.error messages
get_resume_by_role(role, has_filter, o1, o2) ==
    LET call1 == [args |-> FirstQuery(role, has_filter), outcome |-> o1]
        call2 == [args |-> FallbackQuery(role), outcome |-> o2]
        failure == <<"Error retrieving resumes by role">>
        first == FirstTierFilter(o1.docs, role)
    IN  IF o1.raised
        THEN [resumes |-> EmptyMapping, searches |-> <<call1>>, errors |-> failure]
        ELSE IF ~NeedsFallback(first)
        THEN [resumes |-> GroupByFilename(first, role), searches |-> <<call1>>,
              errors |-> <<>>]
        ELSE IF o2.raised
        THEN [resumes |-> EmptyMapping, searches |-> <<call1, call2>>, errors |-> failure]
        ELSE [resumes |-> GroupByFilename(FallbackFilter(o2.docs, role), role),
              searches |-> <<call1, call2>>, errors |-> <<>>]

\* ------------------------------------------------------ extract_resume_info
\* resume_info.py:46
k_info == 20

RECURSIVE Join(_, _)
\* sep.join(parts)
Join(sep, parts) ==
    IF parts = <<>> THEN <<>>
    ELSE IF Len(parts) = 1 THEN Head(parts)
    ELSE Head(parts) \o sep \o Join(sep, Tail(parts))

\* the filter without the filename test
FileFilter_Unfiltered(docs, filename) == docs

\* resume_info.py:50
FileFilter(docs, filename) ==
    LET Keep(doc) == MetaGet(doc.metadata, "filename", "(None)") = filename
    IN  SelectSeq(docs, Keep)

\* the return value None (a returned dict is modelled as a one-element list)
NoInfo == <<>>

\* the argument of the similarity_search call (resume_info.py:44-47)
InfoQuery(filename) == [query |-> <<"filename", filename>>, k |-> k_info, filter |-> NoFilter]

\* resume_info.py:40-70, given what its similarity_search does; returns the
\* value together with the search issued and the st.error messages
extract_resume_info(filename, outcome) ==
    LET call == [args |-> InfoQuery(filename), outcome |-> outcome]
        file_docs == FileFilter(outcome.docs, filename)
    IN  IF outcome.raised
        THEN [info |-> NoInfo, searches |-> <<call>>,
              errors |-> <<"Error extracting resume info">>]
        ELSE IF file_docs = <<>>
        THEN [info |-> NoInfo, searches |-> <<call>>, errors |-> <<>>]
        ELSE [info |-> << [filename |-> filename,
                           role |-> MetaGet(file_docs[1].metadata, "role", UnknownRole),
                           content |-> Join(<<" ">>,
                               [i \in 1..Len(file_docs) |-> file_docs[i].page_content]),
                           chunks |-> Len(file_docs)] >>,
              searches |-> <<call>>, errors |-> <<>>]

\* ----------------------------------------------------------- get_all_roles
\* vectorstore.py:61
k_roles == 100

\* vectorstore.py:55-72, given what its similarity_search does; the list of
\* the set of roles, or [] after an exception
get_all_roles(outcome) ==
    IF outcome.raised THEN {}
    ELSE {MetaGet(outcome.docs[i].metadata, "role", UnknownRole) : i \in 1..Len(outcome.docs)}

\* ------------------------------------------------------ create_vector_store
\* the points at which a collaborator of the processing run may fail
Failures == {"none", "embeddings", "from_documents", "validate", "llm", "chain"}

\* nothing is persisted at ./data/chroma_db (vectorstore.py:17)
NoIndex == [exists |-> FALSE, docs |-> <<>>]

\* a rebuild that leaves the persisted index in place
RemoveTree_Kept(db) == db

\* shutil.rmtree(persist_directory) if it exists (vectorstore.py:22-23)
RemoveTree(db) == NoIndex

\* Chroma.from_documents(chunks, persist_directory=...) and persist()
\* (vectorstore.py:28-34): the collection found at the directory, with the
\* chunks added to it
FromDocuments(db, chunks) == [exists |-> TRUE, docs |-> db.docs \o chunks]

\* vectorstore.py:11-52 on the persisted index db: the store returned
\* (NoStore for None) and the persisted index it leaves behind
create_vector_store(chunks, fail, db) ==
    IF chunks = <<>> THEN [store |-> NoStore, db |-> db]
    ELSE IF fail = "from_documents" THEN [store |-> NoStore, db |-> RemoveTree(db)]
    ELSE LET new == FromDocuments(RemoveTree(db), chunks)
         IN  IF fail = "validate" THEN [store |-> NoStore, db |-> new]
             ELSE [store |-> [docs |-> new.docs, created |-> TRUE], db |-> new]

\* ------------------------------------------------- inputs of the tagging spec
TextFrags ==
    { <<"A","I"," ","E","n","g","i","n","e","e","r"," ">>, <<"M","L"," ">>, <<"E","n","g","i","n","e","e","r"," ">>, <<"d","a","t","a"," ","s","c","i","e","n","t","i","s","t"," ">>,
      <<"S","o","f","t","w","a","r","e"," ","D","e","v","e","l","o","p","e","r"," ">>, <<"d","i","s","r","e","g","a","r","d"," ">>, <<"s","k","i","l","l","s"," ">>, <<"g","e","o","m","a","t","i","c","s"," ">>,
      <<"U","X"," ","D","e","s","i","g","n","e","r"," ">>, <<"s","c","r","u","m"," ","m","a","s","t","e","r"," ">>, <<"B","u","s","i","n","e","s","s"," ","A","n","a","l","y","s","t"," ">>,
      <<"n","e","t","w","o","r","k"," ","a","r","c","h","i","t","e","c","t"," ">> }

PageTexts == {Concat(fs) : fs \in SeqsUpTo(TextFrags, MaxTextFrags)}

Filenames ==
    { <<"a","l","i","c","e",".","p","d","f">>, <<"b","o","b",".","p","d","f">>, <<"j","a","n","e","_","s","m","i","t","h","_","r","e","s","u","m","e",".","p","d","f">>, <<"j","o","h","n","_","d","o","e","_","r","e","s","u","m","e",".","p","d","f">>,
      <<"D","e","v","O","p","s","_","c","v",".","p","d","f">> }

NoRole == "(untagged)"

\* no filename has been asked for
NoFile == <<>>

\* ------------------------------------------------ inputs of the session spec
File(name, pages) == [name |-> name, pages |-> pages, readable |-> TRUE]

Alice == File(<<"a","l","i","c","e",".","p","d","f">>, << <<"S","o","f","t","w","a","r","e"," ","E","n","g","i","n","e","e","r",","," ","P","y","t","h","o","n">> >>)
AlicePages ==
    File(<<"a","l","i","c","e",".","p","d","f">>, << <<"s","o","f","t","w","a","r","e"," ","d","e","v","e","l","o","p","e","r"," ">>, <<" ","s","k","i","l","l","s">>, <<"p","r","o","g","r","a","m","m","e","r">> >>)
Bob == File(<<"b","o","b",".","p","d","f">>, << <<"d","a","t","a"," ","s","c","i","e","n","t","i","s","t">> >>)
BigBob == File(<<"b","o","b",".","p","d","f">>, [p \in 1..BigPages |-> <<"D","a","t","a"," ","S","c","i","e","n","c","e">>])
DevOpsCv == File(<<"D","e","v","O","p","s","_","c","v",".","p","d","f">>, << <<"s","k","i","l","l","s">> >>)
Blank == File(<<"c","a","r","o","l",".","p","d","f">>, << <<" ">> >>)
\* a resume that names no role
Dana == File(<<"d","a","n","a",".","p","d","f">>, << <<"s","k","i","l","l","s">> >>)
\* a page without a separator that the splitter cuts into two chunks
LongCv == File(<<"l","o","n","g",".","p","d","f">>, << <<"d","e","v","o","p","s">> \o [i \in 1..LongPageFill |-> "x"] >>)
Corrupt == [name |-> <<"c","o","r","r","u","p","t",".","p","d","f">>, pages |-> <<>>, readable |-> FALSE]

\* the lists st.file_uploader may hand to the process button
SampleUploads ==
    { <<AlicePages, Bob>>, <<DevOpsCv>>, <<Blank>>, <<Alice, Corrupt>> }

\* uploads with a page of more than chunk_size characters
SplitUploads == { <<LongCv>>, <<Dana>>, <<AlicePages, Dana>> }

\* uploads with a resume of more than k_fallback pages
LongUploads == { <<Alice, BigBob>> }

\* the roles a caller may ask get_resume_by_role for
RoleArgs ==
    {"AI Engineer", "Data Scientist", "Software Engineer", "DevOps Engineer", UnknownRole}

\* ---------------------------------------------------------------- the chain
\* the number of chunks a retriever fetches (tabs.py:60, qa_chain.py:53)
k_retriever == 5

\* nothing has been written as an answer
NoAnswer == "(no answer)"

ChainTypes == {"traditional", "modern"}

\* the dictionary a chain returns: RetrievalQA answers under "result" and
\* "source_documents" (qa_chain.py:57-63), create_retrieval_chain under
\* "answer" and "context" (qa_chain.py:101)
ChainValue(kind, docs) ==
    IF kind = "modern"
    THEN [answer |-> "answer", context |-> docs]
    ELSE [result |-> "answer", source_documents |-> docs]

\* what one invocation of a chain may do: raise, or answer with the
\* documents its retriever fetched
ChainOutcomes(kind, docs) ==
    { [raised |-> TRUE, value |-> ChainValue(kind, <<>>)],
      [raised |-> FALSE, value |-> ChainValue(kind, docs)] }

\* a query_rag that reports the error of the first invocation at once
query_rag_NoSecondCall(chain_type, question, o1, o2) ==
    LET first_key == IF chain_type = "modern" THEN "input" ELSE "query"
    IN  IF ~o1.raised
        THEN [value |-> IF chain_type = "modern"
                        THEN [result |-> MetaGet(o1.value, "answer", "No answer found"),
                              source_documents |-> MetaGet(o1.value, "context", <<>>)]
                        ELSE o1.value,
              calls |-> << [key |-> first_key, question |-> question, raised |-> FALSE] >>,
              errors |-> <<>>]
        ELSE [value |-> [result |-> "Error occurred during query",
                         source_documents |-> <<>>],
              calls |-> << [key |-> first_key, question |-> question, raised |-> TRUE] >>,
              errors |-> <<"Error querying system">>]

\* query_rag(qa_chain, question, chain_type) (app.py:48-80); o1 is what the
\* first invocation does and o2 what the one with the alternative key does
query_rag(chain_type, question, o1, o2) ==
    LET first_key == IF chain_type = "modern" THEN "input" ELSE "query"
        alt_key == IF chain_type = "traditional" THEN "question" ELSE "query"
        Wrap(value) ==
            IF chain_type = "modern"
            THEN [result |-> MetaGet(value, "answer", "No answer found"),
                  source_documents |-> MetaGet(value, "context", <<>>)]
            ELSE value
    IN  IF ~o1.raised
        THEN [value |-> Wrap(o1.value),
              calls |-> << [key |-> first_key, question |-> question, raised |-> FALSE] >>,
              errors |-> <<>>]
        ELSE IF ~o2.raised
        THEN [value |-> Wrap(o2.value),
              calls |-> << [key |-> first_key, question |-> question, raised |-> TRUE],
                           [key |-> alt_key, question |-> question, raised |-> FALSE] >>,
              errors |-> <<>>]
        ELSE [value |-> [result |-> "Error occurred during query",
                         source_documents |-> <<>>],
              calls |-> << [key |-> first_key, question |-> question, raised |-> TRUE],
                           [key |-> alt_key, question |-> question, raised |-> TRUE] >>,
              errors |-> <<"Error querying system">>]

\* st.session_state.qa_chain is None (app.py:35-36)
NoChain == "(no chain)"

\* the chain set up for the selected chain type (app.py:170-173): its kind,
\* or None when the setup function caught an exception (qa_chain.py:68-70,
\* 105-107)
SetupChain(selected, fail) == IF fail = "chain" THEN NoChain ELSE selected

\* a run that writes the session although no chain was set up
RunSucceeded_WithoutChain(store, llm, chain) == store # NoStore /\ llm

\* the conditions under which the run reaches app.py:179-185
RunSucceeded(store, llm, chain) == store # NoStore /\ llm /\ chain # NoChain

\* the st.error message of the step at which the run stops (app.py:152-176)
RunError(chunks, fail, store) ==
    IF chunks = <<>> THEN "Failed to process PDFs"
    ELSE IF fail = "embeddings" THEN "Failed to initialize embeddings"
    ELSE IF ~store.created THEN "Failed to create vector store"
    ELSE IF fail = "llm" THEN "Failed to initialize LLM"
    ELSE "Failed to set up retrieval system"

\* filtered_sources[:3] (tabs.py:112)
FirstThree_All(s) == s

FirstThree(s) == SubSeq(s, 1, Min(3, Len(s)))

\* no query_specific_resume call has been made
NoSpecific ==
    [filename |-> NoFile, escaped |-> FALSE, result |-> NoAnswer,
     source_documents |-> <<>>]

\* the search the retriever of query_specific_resume issues (tabs.py:57-65)
SpecificQuery(filename) ==
    [query |-> <<"query">>, k |-> k_retriever, filter |-> [filename |-> filename]]

\* result["source_documents"] = relevant_docs (tabs.py:78)
SetSources(value, docs) ==
    [key \in DOMAIN value \cup {"source_documents"} |->
        IF key = "source_documents" THEN docs ELSE value[key]]

\* query_specific_resume(qa_chain, vectorstore, query, filename)
\* (tabs.py:53-84); r is what the retriever does, o1 what the call of the
\* chain in the try block does and o2 what the one in the handler does
query_specific_resume(filename, r, o1, o2) ==
    LET search == [args |-> SpecificQuery(filename), outcome |-> r]
        try_call ==
            [key |-> "query", question |-> <<"Based only on the resume", filename>>,
             raised |-> o1.raised]
        handler_call ==
            [key |-> "query", question |-> <<"From", filename, "only">>,
             raised |-> o2.raised]
        Fallback(calls) ==
            [escaped |-> o2.raised,
             value |-> IF o2.raised THEN ChainValue("traditional", <<>>) ELSE o2.value,
             searches |-> <<search>>,
             calls |-> calls \o <<handler_call>>,
             warnings |-> <<"Filtering failed, using fallback method">>]
    IN  IF r.raised THEN Fallback(<<>>)
        ELSE IF r.docs = <<>>
        THEN [escaped |-> FALSE,
              value |-> [result |-> "No relevant information found",
                         source_documents |-> <<>>],
              searches |-> <<search>>, calls |-> <<>>, warnings |-> <<>>]
        ELSE IF o1.raised THEN Fallback(<<try_call>>)
        ELSE [escaped |-> FALSE,
              value |-> SetSources(o1.value, r.docs),
              searches |-> <<search>>, calls |-> <<try_call>>, warnings |-> <<>>]

\* ----------------------------------------------------- sessions of a server
Users == {"u1", "u2"}

\* a session that is not inside create_vector_store
IdleUser == [pc |-> "idle", chunks |-> <<>>, store |-> NoStore]

NoUsers == [u \in Users |-> IdleUser]

VARIABLES
    tagText,         \* doc.page_content of the page being tagged
    tagFilename,     \* os.path.basename(doc.metadata['source'])
    tagRole,         \* doc.metadata['role'] (NoRole until the page is tagged)
    query,           \* the question typed into the query tab
    sources,         \* result["source_documents"] of the chain
    person_name,     \* tabs.py:106
    filtered_sources,\* tabs.py:109
    relevant_sources,\* tabs.py:112
    shown,           \* "idle", or "done" once the sources are displayed
    dir_files,       \* the files in st.session_state.resume_dir
    processed_files, \* st.session_state.processed_files
    initialized,     \* st.session_state.initialized
    vectorstore,     \* st.session_state.vectorstore
    all_roles,       \* st.session_state.all_roles
    run_chunks,      \* what process_pdfs returned to the last processing run
    chroma_db,       \* the index persisted at ./data/chroma_db
    builds,          \* how often a processing run has written the index
    chain_type,      \* st.session_state.chain_type
    qa_chain,        \* st.session_state.qa_chain: the kind of chain, or NoChain
    selected_role,   \* the role last passed to get_resume_by_role
    resumes,         \* what that call returned
    selected_file,   \* the filename last passed to extract_resume_info
    info,            \* what that call returned
    searches,        \* the similarity_search calls it issued
    st_errors,       \* the st.error messages of the last handler
    chain_docs,      \* the documents the chain's own retriever fetches
    chain_calls,     \* the invocations of qa_chain by the last handler that used it
    answer,          \* the answer the query tab wrote (tabs.py:103)
    specific,        \* what the last query_specific_resume call did
    users,           \* the sessions of one server process, each in create_vector_store
    search_log       \* the searches of those sessions, with what they ran against

tagVars == <<tagText, tagFilename, tagRole>>
queryVars == <<query, sources, person_name, filtered_sources, relevant_sources, shown>>
sessionVars ==
    <<dir_files, processed_files, initialized, vectorstore, all_roles,
      run_chunks, chroma_db, builds, chain_type, qa_chain>>
callVars == <<selected_role, resumes, selected_file, info, searches, st_errors>>

chainVars == <<chain_docs, chain_calls, answer, specific>>
serverVars == <<users, search_log>>

vars == <<tagVars, queryVars, sessionVars, callVars, chainVars, serverVars>>

\* the tagging inputs while another specification runs
TagIdle == tagText = <<>> /\ tagFilename = <<>> /\ tagRole = NoRole

\* the query tab while another specification runs
QueryIdle ==
    /\ query = <<>> /\ sources = <<>> /\ person_name = NoName
    /\ filtered_sources = <<>> /\ relevant_sources = <<>> /\ shown = "idle"

\* app.py:30-44 and a fresh temporary directory
SessionInit ==
    /\ dir_files = {}
    /\ processed_files = <<>>
    /\ initialized = FALSE
    /\ vectorstore = NoStore
    /\ all_roles = {}
    /\ run_chunks = NoChunks
    /\ chroma_db = NoIndex
    /\ builds = 0
    /\ chain_type = "traditional"
    /\ qa_chain = NoChain

CallIdle ==
    /\ selected_role = NoRole /\ resumes = EmptyMapping
    /\ selected_file = NoFile /\ info = NoInfo
    /\ searches = <<>> /\ st_errors = <<>>

\* no chain has been invoked
ChainIdle ==
    /\ chain_docs = <<>> /\ chain_calls = <<>>
    /\ answer = NoAnswer /\ specific = NoSpecific

\* one session only
ServerIdle == users = NoUsers /\ search_log = {}

InitTag ==
    /\ tagText \in PageTexts
    /\ tagFilename \in Filenames
    /\ tagRole = NoRole
    /\ QueryIdle /\ SessionInit /\ CallIdle /\ ChainIdle /\ ServerIdle

\* one iteration of `for doc in documents` (loader.py:22-54)
TagPage ==
    /\ tagRole = NoRole
    /\ tagRole' = assigned_role(tagText, tagFilename)
    /\ UNCHANGED <<tagText, tagFilename, queryVars, sessionVars, callVars,
                   chainVars, serverVars>>

NextTag == TagPage

SpecTag == InitTag /\ [][NextTag]_vars

\* ------------------------------------------------------- the session spec
RECURSIVE SaveAll(_, _)
\* app.py:140-144: each uploaded file is written under its name into the
\* directory, replacing a file of that name
SaveAll(files, uploaded_files) ==
    IF uploaded_files = <<>> THEN files
    ELSE SaveAll({f \in files : f.name # Head(uploaded_files).name} \cup {Head(uploaded_files)},
                 Tail(uploaded_files))

\* a run that leaves the files of the earlier runs in the directory
ClearProcessed_Kept(files, paths) == files

\* app.py:134-136: the previously processed files are removed
ClearProcessed(files, paths) ==
    {f \in files : os_path_join(resume_dir, f.name) \notin Range(paths)}

\* the orders in which the directory may list a set of files
Listings(files) ==
    {l \in [1..Cardinality(files) -> files] :
        \A i, j \in 1..Cardinality(files) : i # j => l[i] # l[j]}

\* process_pdfs on every listing of a sample upload, computed once
SampleChunks ==
    {<<l, process_pdfs(l)>> :
        l \in UNION {Listings(Range(u)) : u \in SampleUploads \cup LongUploads \cup SplitUploads}}

\* process_pdfs(listing), looked up when the listing is one of the samples'
ChunksOf(listing) ==
    IF \E pair \in SampleChunks : pair[1] = listing
    THEN (CHOOSE pair \in SampleChunks : pair[1] = listing)[2]
    ELSE process_pdfs(listing)

Init ==
    /\ TagIdle /\ QueryIdle /\ SessionInit /\ CallIdle /\ ChainIdle /\ ServerIdle

\* the "Process Resumes" button (app.py:131-191) for one of the uploads
ProcessUploads(uploads) ==
    /\ builds < MaxBuilds
    /\ \E uploaded_files \in uploads :
        LET saved == SaveAll(ClearProcessed(dir_files, processed_files), uploaded_files)
        IN  \E listing \in Listings(saved) :
            LET chunks == ChunksOf(listing)
            IN  \E fail \in Failures :
                LET made == IF chunks = NoChunks \/ fail = "embeddings"
                            THEN [store |-> NoStore, db |-> chroma_db]
                            ELSE create_vector_store(chunks, fail, chroma_db)
                    store == made.store
                    chain == IF fail = "llm" THEN NoChain ELSE SetupChain(chain_type, fail)
                    built == RunSucceeded(store, fail # "llm", chain)
                IN  /\ dir_files' = saved
                    /\ run_chunks' = chunks
                    /\ chroma_db' = made.db
                    /\ builds' = IF made.db.exists /\ fail # "embeddings" /\ chunks # NoChunks
                                 THEN builds + 1 ELSE builds
                    /\ processed_files' =
                           [i \in 1..Len(uploaded_files) |->
                               os_path_join(resume_dir, uploaded_files[i].name)]
                    /\ IF built
                       THEN \E roles \in {get_all_roles(o) :
                                            o \in SearchOutcomes(store, k_roles, NoFilter)} :
                               /\ vectorstore' = store
                               /\ qa_chain' = chain
                               /\ all_roles' = roles
                               /\ initialized' = TRUE
                               /\ st_errors' = <<>>
                       ELSE /\ UNCHANGED <<vectorstore, qa_chain, all_roles, initialized>>
                            /\ st_errors' = <<RunError(chunks, fail, store)>>
                    \* the script is rerun: the locals of the tabs are gone
                    /\ selected_role' = NoRole
                    /\ resumes' = EmptyMapping
                    /\ selected_file' = NoFile
                    /\ info' = NoInfo
                    /\ searches' = <<>>
                    /\ UNCHANGED <<chain_type, tagVars, queryVars, chainVars, serverVars>>

\* a call get_resume_by_role(vectorstore, role) of the role tab
\* (tabs.py:141) or of the modification tab (tabs.py:237)
GetRole(roles) ==
    /\ initialized
    /\ \E role \in roles, has_filter \in BOOLEAN :
       \E o1 \in SearchOutcomes(vectorstore, k_first, FirstQuery(role, has_filter).filter) :
       \E o2 \in IF o1.raised \/ ~NeedsFallback(FirstTierFilter(o1.docs, role))
                 THEN {o1}
                 ELSE SearchOutcomes(vectorstore, k_fallback, NoFilter) :
            LET got == get_resume_by_role(role, has_filter, o1, o2)
            IN  /\ selected_role' = role
                /\ resumes' = got.resumes
                /\ searches' = got.searches
                /\ st_errors' = got.errors
    /\ selected_file' = NoFile
    /\ info' = NoInfo
    /\ UNCHANGED <<tagVars, queryVars, sessionVars, chainVars, serverVars>>

\* a call extract_resume_info(vectorstore, filename) (resume_info.py:40)
GetInfo(filenames) ==
    /\ initialized
    /\ \E filename \in filenames :
       \E o \in SearchOutcomes(vectorstore, k_info, NoFilter) :
            LET got == extract_resume_info(filename, o)
            IN  /\ selected_file' = filename
                /\ info' = got.info
                /\ searches' = got.searches
                /\ st_errors' = got.errors
    /\ selected_role' = NoRole
    /\ resumes' = EmptyMapping
    /\ UNCHANGED <<tagVars, queryVars, sessionVars, chainVars, serverVars>>

\* the filenames a caller may ask extract_resume_info for
FileArgs == { <<"a","l","i","c","e",".","p","d","f">>, <<"b","o","b",".","p","d","f">>, <<"z","e","d",".","p","d","f">> }

ProcessResumes == ProcessUploads(SampleUploads)

ExtractResumeInfo == GetInfo(FileArgs)

GetResumeByRole == GetRole(RoleArgs)

Next == ProcessResumes \/ GetResumeByRole \/ ExtractResumeInfo

Spec == Init /\ [][Next]_vars

\* the same session when a long resume is among the uploads
ProcessLong == ProcessUploads(LongUploads)

GetResumeLong == GetRole({"Software Engineer", "Data Scientist"})

ExtractInfoLong == GetInfo({ <<"a","l","i","c","e",".","p","d","f">>, <<"b","o","b",".","p","d","f">> })

NextLong == ProcessLong \/ GetResumeLong \/ ExtractInfoLong

SpecLong == Init /\ [][NextLong]_vars

\* a call query_specific_resume(qa_chain, vectorstore, query, filename) of the
\* role tab (tabs.py:171-175) in a session whose chain is of either kind: the
\* retriever searches the index, and the chain, when it is called, answers
\* with what its own retriever fetched
QuerySpecific(filenames) ==
    /\ initialized
    /\ \E filename \in filenames, kind \in ChainTypes :
       \E r \in SearchOutcomes(vectorstore, k_retriever, SpecificQuery(filename).filter) :
       \E fetched \in SearchOutcomes(vectorstore, k_retriever, NoFilter) :
       \E o1 \in IF r.raised \/ r.docs = <<>>
                 THEN {[raised |-> TRUE, value |-> ChainValue(kind, <<>>)]}
                 ELSE ChainOutcomes(kind, fetched.docs) :
       \E o2 \in IF r.raised \/ (r.docs # <<>> /\ o1.raised)
                 THEN ChainOutcomes(kind, fetched.docs)
                 ELSE {o1} :
            LET got == query_specific_resume(filename, r, o1, o2)
            IN  /\ specific' =
                       [filename |-> filename,
                        escaped |-> got.escaped,
                        result |-> IF got.escaped THEN NoAnswer
                                   ELSE MetaGet(got.value, "result", NoAnswer),
                        source_documents |->
                            IF got.escaped THEN <<>>
                            ELSE MetaGet(got.value, "source_documents", <<>>)]
                /\ searches' = got.searches
                /\ chain_calls' = got.calls
                /\ chain_docs' = fetched.docs
    /\ selected_role' = NoRole
    /\ resumes' = EmptyMapping
    /\ selected_file' = NoFile
    /\ info' = NoInfo
    /\ st_errors' = <<>>
    /\ UNCHANGED <<answer, tagVars, queryVars, sessionVars, serverVars>>

\* the role tab of a session that processed two resumes
RoleTabUploads == { <<AlicePages, Bob>> }

ProcessRoleTab == ProcessUploads(RoleTabUploads)

QuerySpecificResume == QuerySpecific({ <<"a","l","i","c","e",".","p","d","f">>, <<"z","e","d",".","p","d","f">> })

NextRoleTab == ProcessRoleTab \/ QuerySpecificResume

SpecRoleTab == Init /\ [][NextRoleTab]_vars

\* the session when a long page is among the uploads
ProcessSplit == ProcessUploads(SplitUploads)

GetResumeSplit == GetRole({"DevOps Engineer", "Software Engineer"})

ExtractInfoSplit == GetInfo({ <<"l","o","n","g",".","p","d","f">> })

NextSplit == ProcessSplit \/ GetResumeSplit \/ ExtractInfoSplit

SpecSplit == Init /\ [][NextSplit]_vars

\* ------------------------------------------------------- the server spec
\* Streamlit runs the script of every session in a thread of its own, and
\* every session persists its index at the same ./data/chroma_db
\* (vectorstore.py:17); create_vector_store takes no lock, so its steps
\* interleave with those of the other sessions
ServerUploads == { <<DevOpsCv>>, <<Alice>> }

\* the sessions that have removed the index and not yet recreated it
Rebuilding == {u \in Users : users[u].pc = "removed"}

\* a similarity_search of session u, recorded with the sessions that were
\* rebuilding the index while it ran
Searched(u) == [user |-> u, rebuilding |-> Rebuilding]

ServerFrame ==
    UNCHANGED <<tagVars, queryVars, callVars, chainVars, dir_files, processed_files,
                initialized, vectorstore, all_roles, run_chunks, builds,
                chain_type, qa_chain>>

\* the processing run of session u up to shutil.rmtree (app.py:131-160,
\* vectorstore.py:14-23)
BeginRebuild(u) ==
    /\ users[u].pc = "idle"
    /\ \E uploaded_files \in ServerUploads :
            LET chunks == ChunksOf(uploaded_files)
            IN  /\ chunks # NoChunks
                /\ users' = [users EXCEPT ![u] =
                                [pc |-> "removed", chunks |-> chunks, store |-> NoStore]]
    /\ chroma_db' = RemoveTree(chroma_db)
    /\ UNCHANGED search_log
    /\ ServerFrame

\* Chroma.from_documents and persist (vectorstore.py:28-34)
FinishRebuild(u) ==
    /\ users[u].pc = "removed"
    /\ chroma_db' = FromDocuments(chroma_db, users[u].chunks)
    /\ users' = [users EXCEPT ![u].pc = "created"]
    /\ UNCHANGED search_log
    /\ ServerFrame

\* the validation search (vectorstore.py:38-48) and the rest of the run
\* (app.py:162-187), with the role search of get_all_roles
ValidateStore(u) ==
    /\ users[u].pc = "created"
    /\ \E ok \in BOOLEAN :
            users' = [users EXCEPT ![u] =
                        [pc |-> "idle", chunks |-> <<>>,
                         store |-> IF ok THEN [docs |-> chroma_db.docs, created |-> TRUE]
                                   ELSE NoStore]]
    /\ search_log' = search_log \cup {Searched(u)}
    /\ UNCHANGED chroma_db
    /\ ServerFrame

\* a similarity_search of a tab of session u (resume_info.py:12-16, 44-47)
Search(u) ==
    /\ users[u].pc = "idle"
    /\ users[u].store # NoStore
    /\ search_log' = search_log \cup {Searched(u)}
    /\ UNCHANGED <<users, chroma_db>>
    /\ ServerFrame

InitServer ==
    /\ TagIdle /\ QueryIdle /\ SessionInit /\ CallIdle /\ ChainIdle
    /\ users = NoUsers
    /\ search_log = {}

NextServer ==
    \E u \in Users : BeginRebuild(u) \/ FinishRebuild(u) \/ ValidateStore(u) \/ Search(u)

SpecServer == InitServer /\ [][NextServer]_vars

\* --------------------------------------------------- the query-tab specs
\* the pieces a typed question is put together from
QueryFrags ==
    { <<"t","e","l","l"," ">>, <<"J","a","n","e"," ">>, <<"J","a","n","e">>, <<"S","m","i","t","h">>, <<"'","s">>, <<"M","c">>, <<"2">>,
      <<"\n">>, <<"S","o","f","t","w","a","r","e"," ">>, <<"E","n","g","i","n","e","e","r">>, <<"x","-">> }

\* the non-empty questions of the name specification
FragQueries == {Concat(fs) : fs \in SeqsUpTo(QueryFrags, MaxQueryFrags)} \ {<<>>}

JaneSmithQuery == <<"T","e","l","l"," ","m","e"," ","a","b","o","u","t"," ","J","a","n","e"," ","S","m","i","t","h","'","s"," ","e","x","p","e","r","i","e","n","c","e">>
SkillsQuery == <<"w","h","a","t"," ","s","k","i","l","l","s"," ","a","r","e"," ","l","i","s","t","e","d">>

\* the questions of the filter specification
SampleQueries ==
    { JaneSmithQuery, SkillsQuery, <<"C","o","m","p","a","r","e"," ","S","o","f","t","w","a","r","e"," ","E","n","g","i","n","e","e","r"," ","r","e","s","u","m","e","s">>,
      <<"A","s","k"," ","J","o","h","n"," ","S","m","i","t","h">>, <<"D","o","e","s"," ","J","a","n","e"," ","D","o","e"," ","c","o","d","e">>, <<"s","h","o","w"," ","J","O","H","N"," ","a","n","d"," ","j","a","n","e">> }

Source(filename, text) ==
    [page_content |-> text, metadata |-> [filename |-> filename, role |-> UnknownRole]]

JaneDoc == Source(<<"j","a","n","e","_","s","m","i","t","h","_","r","e","s","u","m","e",".","p","d","f">>, <<"J","a","n","e"," ","S","m","i","t","h",","," ","a","n","a","l","y","s","t">>)
JohnDoc == Source(<<"j","o","h","n","_","d","o","e","_","r","e","s","u","m","e",".","p","d","f">>, <<"J","o","h","n"," ","D","o","e",","," ","d","e","v","e","l","o","p","e","r">>)
SmithDoc == Source(<<"S","m","i","t","h","_","C","V",".","p","d","f">>, <<"A","."," ","S","m","i","t","h">>)
\* a source document without filename metadata
BareDoc == [page_content |-> <<"n","o","t","e","s">>, metadata |-> [role |-> UnknownRole]]

SourceDocs == {JaneDoc, JohnDoc, SmithDoc, BareDoc}

\* what a retriever may hand back: at most MaxSources chunks of the index,
\* none of them twice
RetrievedDocs ==
    {docs \in SeqsUpTo(SourceDocs, MaxSources) :
        \A i, j \in 1..Len(docs) : i # j => docs[i] # docs[j]}

\* a session whose chain is about to be asked
AskIdle ==
    /\ sources = <<>> /\ person_name = NoName /\ filtered_sources = <<>>
    /\ relevant_sources = <<>> /\ shown = "idle"
    /\ chain_calls = <<>> /\ answer = NoAnswer /\ specific = NoSpecific

InitName ==
    /\ query \in FragQueries
    /\ chain_docs = <<JaneDoc, JohnDoc>>
    /\ AskIdle
    /\ TagIdle /\ SessionInit /\ CallIdle /\ ServerIdle

InitFilter ==
    /\ query \in SampleQueries
    /\ chain_docs \in RetrievedDocs
    /\ AskIdle
    /\ TagIdle /\ SessionInit /\ CallIdle /\ ServerIdle

\* the "Ask" button (tabs.py:99-112) for a question, under the selected chain
\* type and given what the invocations of the chain do: query_rag asks the
\* chain, the answer is written, the name is extracted, the sources are
\* filtered and the first three are displayed
RenderQuery(question, selected, o1, o2) ==
    LET rag == query_rag(selected, question, o1, o2)
        result == rag.value
        name == extract_person_name_from_query(question)
        filtered == filter_sources_by_context(result.source_documents, question, name)
    IN  /\ chain_calls' = rag.calls
        /\ st_errors' = rag.errors
        /\ IF {"result", "source_documents"} \subseteq DOMAIN result
           THEN /\ answer' = result.result
                /\ sources' = result.source_documents
                /\ person_name' = name
                /\ filtered_sources' = filtered
                /\ relevant_sources' = FirstThree(filtered)
                /\ shown' = "done"
           ELSE \* result["result"] raises KeyError (tabs.py:103)
                /\ answer' = NoAnswer
                /\ sources' = <<>>
                /\ person_name' = NoName
                /\ filtered_sources' = <<>>
                /\ relevant_sources' = <<>>
                /\ shown' = "failed"

\* the button in a session whose chain is of one of the kinds and whose
\* selected chain type is one of chain_types
Ask(chain_types, kinds, may_raise) ==
    /\ shown = "idle"
    /\ query # <<>>
    /\ \E selected \in chain_types, kind \in kinds :
       \E o1 \in {o \in ChainOutcomes(kind, chain_docs) : o.raised \in may_raise} :
       \E o2 \in IF o1.raised THEN ChainOutcomes(kind, chain_docs) ELSE {o1} :
            RenderQuery(query, selected, o1, o2)
    /\ UNCHANGED <<query, chain_docs, specific, tagVars, sessionVars, serverVars,
                   selected_role, resumes, selected_file, info, searches>>

\* a traditional chain that answers
AskQuestion == Ask({"traditional"}, {"traditional"}, {FALSE})

\* a chain of either kind under either selection, which may fail
AskAnyChain == Ask(ChainTypes, ChainTypes, BOOLEAN)

NextQuery == AskQuestion

NextFilter == AskAnyChain

SpecName == InitName /\ [][NextQuery]_vars

SpecFilter == InitFilter /\ [][NextFilter]_vars

\* ---------------------------------------------------- the chain-type spec
\* the selectbox of the sidebar (app.py:101-107): every rerun stores the
\* selected chain type in the session, whether or not resumes are processed
SelectChainType ==
    /\ \E selected \in ChainTypes \ {chain_type} : chain_type' = selected
    /\ UNCHANGED <<dir_files, processed_files, initialized, vectorstore, all_roles,
                   run_chunks, chroma_db, builds, qa_chain,
                   tagVars, queryVars, callVars, chainVars, serverVars>>

\* the "Ask" button of an initialized session (tabs.py:96-112, app.py:194-201):
\* the session's chain is asked under the session's chain type
AskInSession(questions) ==
    /\ initialized
    /\ \E question \in questions :
       \E fetched \in SearchOutcomes(vectorstore, k_retriever, NoFilter) :
       \E o1 \in ChainOutcomes(qa_chain, fetched.docs) :
       \E o2 \in IF o1.raised THEN ChainOutcomes(qa_chain, fetched.docs) ELSE {o1} :
            /\ RenderQuery(question, chain_type, o1, o2)
            /\ query' = question
            /\ chain_docs' = fetched.docs
    /\ UNCHANGED <<specific, tagVars, sessionVars, serverVars,
                   selected_role, resumes, selected_file, info, searches>>

ProcessChain == ProcessUploads({ <<DevOpsCv>> })

AskSkills == AskInSession({SkillsQuery})

NextChain == SelectChainType \/ ProcessChain \/ AskSkills

SpecChain == Init /\ [][NextChain]_vars

\* ---------------------------------------------------- properties of tagging
\* the order of the roles as the specification declares it
DeclaredOrder ==
    << "AI Engineer", "Geomatics Engineer", "Data Scientist", "Software Engineer",
       "UI/UX Designer", "Project Manager", "DevOps Engineer", "Business Analyst",
       "Network Engineer" >>

\* keyword kw (lower case) occurs in s, whatever the case of s
OccursCI(kw, s) ==
    \E i \in 0..(Len(s) - Len(kw)) : \A j \in 1..Len(kw) : LowerChar(s[i + j]) = kw[j]

\* some keyword of the role occurs in the page text or in the filename
RoleOccurs(role) ==
    \E k \in 1..Len(role_keywords(role)) :
        \/ OccursCI(role_keywords(role)[k], tagText)
        \/ OccursCI(role_keywords(role)[k], tagFilename)

\* C2: the tagger assigns the first role, in the declared order, one of whose
\* keywords occurs (in any case) in the page text or the filename; a text with
\* both 'ai engineer' and 'data scientist' is tagged 'AI Engineer' wherever the
\* two keywords stand.
C2_FirstDeclaredRoleWins ==
    tagRole # NoRole =>
        /\ \A i \in 1..Len(DeclaredOrder) :
              (RoleOccurs(DeclaredOrder[i]) /\ \A j \in 1..(i - 1) : ~RoleOccurs(DeclaredOrder[j]))
                  => tagRole = DeclaredOrder[i]
        /\ (OccursCI(<<"a","i"," ","e","n","g","i","n","e","e","r">>, tagText) /\ OccursCI(<<"d","a","t","a"," ","s","c","i","e","n","t","i","s","t">>, tagText))
              => tagRole = "AI Engineer"

\* a page that names 'data scientist' before 'AI Engineer' has been tagged
C2_Witness ==
    /\ tagText = <<"d","a","t","a"," ","s","c","i","e","n","t","i","s","t"," ","A","I"," ","E","n","g","i","n","e","e","r"," ">>
    /\ tagRole = "AI Engineer"

\* C3: 'Unknown Role' is assigned exactly when no keyword of any role occurs in
\* the page text or the filename, and the assigned role is always one of the
\* nine declared roles or 'Unknown Role' (the tagger has no failing outcome).
C3_UnknownIffNoKeyword ==
    tagRole # NoRole =>
        /\ tagRole = "Unknown Role" <=> \A i \in 1..Len(DeclaredOrder) : ~RoleOccurs(DeclaredOrder[i])
        /\ tagRole \in Range(DeclaredOrder) \cup {"Unknown Role"}

\* a page without any keyword has been tagged, and so has a page whose only
\* keyword is in its filename
C3_Witness ==
    /\ tagRole = "Unknown Role"
    /\ tagText = <<"s","k","i","l","l","s"," ">>

\* ------------------------------------------- properties of the role lookup
\* the documents a logged similarity_search returned
Returned(call) == {call.outcome.docs[i] : i \in 1..Len(call.outcome.docs)}

\* the positions of a logged search's result that carry the requested role
RoleHits(call) ==
    {i \in 1..Len(call.outcome.docs) : call.outcome.docs[i].metadata.role = selected_role}

\* some logged search raised
SomeSearchRaised == \E s \in 1..Len(searches) : searches[s].outcome.raised

\* text is the text of a chunk of file f that the search returned with the
\* requested role
FromRequestedRole(call, f, text) ==
    \E d \in Returned(call) :
        /\ d.page_content = text
        /\ d.metadata.role = selected_role
        /\ d.metadata.filename = f

\* C1: whatever the index returns (also when it ignores the metadata filter and
\* returns chunks of other roles), every text in the mapping returned by
\* get_resume_by_role(R) is the text of a returned candidate whose role is
\* exactly R, filed under that candidate's filename, and every entry has role R;
\* this holds for the first-tier and for the fallback search.
C1_OnlyRequestedRole ==
    selected_role # NoRole =>
        \A f \in DOMAIN resumes :
            /\ resumes[f].role = selected_role
            /\ \A i \in 1..Len(resumes[f].content) :
                  FromRequestedRole(searches[Len(searches)], f, resumes[f].content[i])

\* a fallback search has produced a mapping although the index ignored the
\* filter of the first search and both searches returned chunks of another role
C1_Witness ==
    /\ selected_role = "Software Engineer"
    /\ Len(searches) = 2
    /\ resumes # EmptyMapping
    /\ searches[1].args.filter # NoFilter
    /\ \E d \in Returned(searches[1]) : d.metadata.role = "Data Scientist"
    /\ \E d \in Returned(searches[2]) : d.metadata.role = "Data Scientist"

\* C7: for a role that no indexed chunk carries, get_resume_by_role returns the
\* empty mapping; the lookup itself reports no error (an error message appears
\* only when a similarity search raised, and the call still returns).
C7_NoChunkOfRoleGivesEmptyMapping ==
    (/\ selected_role # NoRole
     /\ \A i \in 1..Len(vectorstore.docs) : vectorstore.docs[i].metadata.role # selected_role)
        => /\ resumes = EmptyMapping
           /\ st_errors # <<>> => SomeSearchRaised

\* both searches ran on a filled index for a role nobody has, and nothing was
\* reported
C7_Witness ==
    /\ selected_role = "AI Engineer"
    /\ vectorstore.docs # <<>>
    /\ Len(searches) = 2
    /\ ~SomeSearchRaised
    /\ resumes = EmptyMapping
    /\ st_errors = <<>>

\* C8: a call issues one or two searches; the first asks for 50 candidates; the
\* second is issued exactly when the first returned and none of its candidates
\* has the requested role; it asks for 100 candidates (more than the first)
\* without a filter, and its candidates are post-filtered by exact role again.
C8_FallbackExactlyWhenFirstTierEmpty ==
    selected_role # NoRole =>
        /\ Len(searches) \in {1, 2}
        /\ searches[1].args.k = 50
        /\ Len(searches) = 2 <=>
              (~searches[1].outcome.raised /\ RoleHits(searches[1]) = {})
        /\ Len(searches) = 2 =>
              /\ searches[2].args.k = 100
              /\ searches[2].args.k > searches[1].args.k
              /\ searches[2].args.filter = NoFilter
              /\ \A f \in DOMAIN resumes : \A i \in 1..Len(resumes[f].content) :
                    FromRequestedRole(searches[2], f, resumes[f].content[i])
              /\ ~searches[2].outcome.raised =>
                    (resumes = EmptyMapping <=> RoleHits(searches[2]) = {})

\* the broader search found a chunk of the role among candidates of another
\* role after the first search had returned none
C8_Witness ==
    /\ Len(searches) = 2
    /\ ~searches[1].outcome.raised /\ searches[1].outcome.docs # <<>>
    /\ RoleHits(searches[2]) # {}
    /\ Cardinality(RoleHits(searches[2])) < Len(searches[2].outcome.docs)
    /\ resumes # EmptyMapping

\* the chunks that pass the exact-role post-filter of the search whose result
\* is grouped, in the order the search returned them
Survivors ==
    LET last == searches[Len(searches)]
        Keep(d) == d.metadata.role = selected_role
    IN  IF last.outcome.raised THEN <<>> ELSE SelectSeq(last.outcome.docs, Keep)

\* the survivors of one file, in retrieval order
SurvivorsOf(f) ==
    LET InFile(d) == d.metadata.filename = f
    IN  SelectSeq(Survivors, InFile)

\* C9: the keys of the mapping are the filenames of the surviving chunks, and
\* the content list of each key holds the texts of exactly the surviving chunks
\* of that file, once each, in the order the search returned them; no content
\* list is empty.
C9_GroupedByFilenameInRetrievalOrder ==
    selected_role # NoRole =>
        /\ DOMAIN resumes = {Survivors[i].metadata.filename : i \in 1..Len(Survivors)}
        /\ \A f \in DOMAIN resumes :
              /\ resumes[f].content # <<>>
              /\ Len(resumes[f].content) = Len(SurvivorsOf(f))
              /\ \A i \in 1..Len(SurvivorsOf(f)) :
                    resumes[f].content[i] = SurvivorsOf(f)[i].page_content

\* two chunks of alice.pdf were returned in the reverse of their page order,
\* with a chunk of another role between them, and are listed in that order
C9_Witness ==
    /\ selected_role = "Software Engineer"
    /\ Len(Survivors) = 2
    /\ Len(searches[Len(searches)].outcome.docs) > 2
    /\ <<"a","l","i","c","e",".","p","d","f">> \in DOMAIN resumes
    /\ resumes[<<"a","l","i","c","e",".","p","d","f">>].content = << <<"p","r","o","g","r","a","m","m","e","r">>, <<"s","o","f","t","w","a","r","e"," ","d","e","v","e","l","o","p","e","r">> >>

\* C10: after processing alice.pdf (Software Engineer keywords) and bob.pdf
\* (Data Scientist keywords), a lookup whose searches did not raise has exactly
\* the key alice.pdf for 'Software Engineer' and exactly the key bob.pdf for
\* 'Data Scientist'.
C10_ExactKeysPerRole ==
    (/\ selected_role # NoRole
     /\ ~SomeSearchRaised
     /\ {vectorstore.docs[i].metadata.filename : i \in 1..Len(vectorstore.docs)}
            = {<<"a","l","i","c","e",".","p","d","f">>, <<"b","o","b",".","p","d","f">>})
        => /\ selected_role = "Software Engineer" => DOMAIN resumes = {<<"a","l","i","c","e",".","p","d","f">>}
           /\ selected_role = "Data Scientist" => DOMAIN resumes = {<<"b","o","b",".","p","d","f">>}

\* ---------------------------------------------- properties of the query tab
\* the whitespace-delimited components of a name
Components(name) ==
    {SubSeq(name, p[1], p[2]) :
        p \in {r \in (1..Len(name)) \X (1..Len(name)) :
                 /\ r[1] <= r[2]
                 /\ \A j \in r[1]..r[2] : ~IsSpace(name[j])
                 /\ r[1] = 1 \/ IsSpace(name[r[1] - 1])
                 /\ r[2] = Len(name) \/ IsSpace(name[r[2] + 1])}}

\* the filename a source document is displayed with ('' if it has none)
FilenameOf(doc) ==
    IF "filename" \in DOMAIN doc.metadata THEN doc.metadata.filename ELSE <<>>

\* the filename of the source contains, in any case, a component of the
\* extracted name
NameMatches(doc) ==
    \E c \in Components(person_name) : OccursCI(lower(c), FilenameOf(doc))

\* C4: when no name is extracted from the query ('what skills are listed') or
\* the name matches no source filename, the displayed filter returns the
\* sources unchanged; a non-empty source sequence never becomes empty.
C4_UnchangedWithoutNameOrMatch ==
    shown = "done" =>
        /\ (person_name = NoName \/ \A i \in 1..Len(sources) : ~NameMatches(sources[i]))
              => filtered_sources = sources
        /\ sources # <<>> => filtered_sources # <<>>
        /\ query = SkillsQuery => (person_name = NoName /\ filtered_sources = sources)

\* a name was extracted that matches none of three sources, and all three
\* were kept
C4_Witness ==
    /\ shown = "done"
    /\ query = <<"C","o","m","p","a","r","e"," ","S","o","f","t","w","a","r","e"," ","E","n","g","i","n","e","e","r"," ","r","e","s","u","m","e","s">>
    /\ person_name = <<"C","o","m","p","a","r","e"," ","S","o","f","t","w","a","r","e">>
    /\ sources = <<JaneDoc, BareDoc, JohnDoc>>
    /\ filtered_sources = sources

\* C5: when a name is extracted and some source matches it, the filter returns
\* exactly the matching sources in their original order; for "Tell me about
\* Jane Smith's experience" and the sources jane_smith_resume.pdf,
\* john_doe_resume.pdf it returns only the first.
C5_ExactlyTheMatchingSources ==
    shown = "done" =>
        /\ (person_name # NoName /\ \E i \in 1..Len(sources) : NameMatches(sources[i]))
              => filtered_sources = SelectSeq(sources, NameMatches)
        /\ (query = JaneSmithQuery /\ sources = <<JaneDoc, JohnDoc>>)
              => filtered_sources = <<JaneDoc>>

\* the question about Jane Smith kept the two Smith sources of three, in order
C5_Witness ==
    /\ shown = "done"
    /\ query = JaneSmithQuery
    /\ person_name = <<"J","a","n","e"," ","S","m","i","t","h">>
    /\ sources = <<SmithDoc, JohnDoc, JaneDoc>>
    /\ filtered_sources = <<SmithDoc, JaneDoc>>

\* q[a..b] is an uppercase letter followed by one or more lowercase letters
CapWord(q, a, b) == a < b /\ IsUpper(q[a]) /\ \A j \in (a + 1)..b : IsLower(q[j])

\* q[i..e] is two such words separated by whitespace only, and neither the
\* character before q[i] nor the one after q[e] is a letter, digit or "_"
NameRun(q, i, e) ==
    /\ ~(i > 1 /\ IsWordChar(q[i - 1]))
    /\ ~(e < Len(q) /\ IsWordChar(q[e + 1]))
    /\ \E e1 \in (i + 1)..(e - 3) :
          /\ CapWord(q, i, e1)
          /\ \E w \in (e1 + 1)..(e - 2) :
                /\ \A j \in (e1 + 1)..w : IsSpace(q[j])
                /\ CapWord(q, w + 1, e)

\* the name runs of the typed question
NameRuns ==
    {r \in (1..Len(query)) \X (1..Len(query)) :
        r[1] < r[2] /\ IsUpper(query[r[1]]) /\ NameRun(query, r[1], r[2])}

StartsCapitalised(word) == Len(word) >= 2 /\ IsUpper(word[1]) /\ IsLower(word[2])

FileCandidates ==
    LET Keep(d) == d.metadata.filename = selected_file
    IN  SelectSeq(searches[1].outcome.docs, Keep)

\* C11: when the search returns and none of its candidates has exactly the
\* requested filename, extract_resume_info returns None and reports no error.
C11_NotFoundIsNone ==
    (/\ selected_file # NoFile
     /\ ~searches[1].outcome.raised
     /\ FileCandidates = <<>>)
        => info = NoInfo /\ st_errors = <<>>

\* a file that is not in a filled index was asked for and candidates of other
\* files came back
C11_Witness ==
    /\ selected_file = <<"z","e","d",".","p","d","f">>
    /\ Len(searches) = 1
    /\ ~searches[1].outcome.raised
    /\ Len(searches[1].outcome.docs) >= 2
    /\ info = NoInfo
    /\ st_errors = <<>>

\* the texts of the candidates, joined by single blanks
JoinedTexts(docs) ==
    IF docs = <<>> THEN <<>>
    ELSE LET F[i \in 1..Len(docs)] ==
                 IF i = 1 THEN docs[1].page_content
                 ELSE F[i - 1] \o <<" ">> \o docs[i].page_content
         IN  F[Len(docs)]

\* C12: extract_resume_info issues one search for 20 candidates and builds its
\* value only from the candidates whose filename is exactly the requested one:
\* the content is their texts in retrieval order, the chunk count is their
\* number, and a file that has chunks in the index is found.
C12_FileWithChunksIsFound ==
    (selected_file # NoFile /\ ~searches[1].outcome.raised) =>
        /\ Len(searches) = 1 /\ searches[1].args.k = 20
        /\ info # NoInfo =>
              /\ info[1].filename = selected_file
              /\ info[1].content = JoinedTexts(FileCandidates)
              /\ info[1].chunks = Len(FileCandidates)
              /\ info[1].chunks >= 1
        /\ (\E i \in 1..Len(vectorstore.docs) :
                vectorstore.docs[i].metadata.filename = selected_file)
              => info # NoInfo

\* --------------------------------------- properties of the processing run
\* the state in which a processing run has just ended with success
JustProcessed ==
    /\ initialized /\ st_errors = <<>>
    /\ selected_role = NoRole /\ selected_file = NoFile

HasText(file) ==
    \E p \in 1..Len(file.pages) : \E j \in 1..Len(file.pages[p]) : ~IsSpace(file.pages[p][j])

\* C15: a processing run whose directory holds an unreadable PDF still gets
\* from process_pdfs the chunks of every readable PDF with text.
C15_UnreadableFileIsSkipped ==
    processed_files # <<>> =>
        \A f \in dir_files :
            (f.readable /\ HasText(f)) =>
                \E i \in 1..Len(run_chunks) : run_chunks[i].metadata.filename = f.name

\* C16: the value returned by get_resume_by_role or extract_resume_info after
\* a similarity search raised differs from the value returned when no chunk
\* matches ({} and None).
C16_FailureDistinctFromNoMatch ==
    /\ (selected_role # NoRole /\ SomeSearchRaised) => resumes # EmptyMapping
    /\ (selected_file # NoFile /\ SomeSearchRaised) => info # NoInfo


\* ------------------------------------------- properties of the asked chain
\* whether s keeps some of the elements of t, in their order
RECURSIVE IsSubsequence(_, _)
IsSubsequence(s, t) ==
    IF s = <<>> THEN TRUE
    ELSE IF t = <<>> THEN FALSE
    ELSE IF Head(s) = Head(t) THEN IsSubsequence(Tail(s), Tail(t))
    ELSE IsSubsequence(s, Tail(t))

\* the last invocation of the chain answered
ChainAnswered == chain_calls # <<>> /\ ~chain_calls[Len(chain_calls)].raised

\* C20: in the query tab the chain is asked the question as typed before the
\* filter runs; the filter changes neither the sources it was given nor the
\* answer (an answering chain's documents and answer are still whole after
\* it), what it keeps is a subsequence of what it was given, and exactly the
\* first three of the filtered sources, or all if there are fewer, are displayed
C20_FilterAffectsOnlyDisplay ==
    shown = "done" =>
        /\ chain_calls # <<>>
        /\ \A i \in 1..Len(chain_calls) : chain_calls[i].question = query
        /\ (ChainAnswered /\ answer = "answer") => sources = chain_docs
        /\ (~ChainAnswered) => answer = "Error occurred during query" /\ sources = <<>>
        /\ IsSubsequence(filtered_sources, sources)
        /\ Len(relevant_sources) <= 3
        /\ relevant_sources = SubSeq(filtered_sources, 1, Min(3, Len(filtered_sources)))

\* a question without a name: the chain's four documents all pass the filter
\* and only the first three are displayed
C20_Witness ==
    /\ shown = "done"
    /\ query = SkillsQuery
    /\ ChainAnswered
    /\ answer = "answer"
    /\ sources = <<JaneDoc, JohnDoc, SmithDoc, BareDoc>>
    /\ filtered_sources = sources
    /\ relevant_sources = <<JaneDoc, JohnDoc, SmithDoc>>


\* ------------------------------------- properties of query_specific_resume
\* the last query_specific_resume call
Specific == specific.filename # NoFile

\* C17: no exception of a collaborator escapes a core operation; here
\* query_specific_resume, which has returned a value after every call
C17_NoExceptionEscapes ==
    Specific => ~specific.escaped

\* C19: the source_documents that query_specific_resume returns for a file
\* all carry that file's name, whatever the index does with the filter
C19_SourcesOfTheFileOnly ==
    (Specific /\ ~specific.escaped) =>
        \A i \in 1..Len(specific.source_documents) :
            FilenameOf(specific.source_documents[i]) = specific.filename

\* C18: within one operation no collaborator is called again after a call to
\* it has failed: neither the index in the searches of the last operation nor
\* the chain in its invocations
C18_NoCallAfterFailedCall ==
    /\ \A i \in 1..Len(searches) : i < Len(searches) => ~searches[i].outcome.raised
    /\ \A i \in 1..Len(chain_calls) : i < Len(chain_calls) => ~chain_calls[i].raised


\* -------------------------------------------------- properties of the server
\* C14: a rebuild of the index is exclusive with respect to searches: no
\* similarity search of any session has run while a session had removed the
\* persisted index and not yet recreated it
C14_RebuildExcludesSearches ==
    \A s \in search_log : s.rebuilding = {}


\* ------------------------------------------------ properties of the chunks
\* the uploaded file a chunk names
FileOf(chunk) == CHOOSE f \in dir_files : f.name = chunk.metadata.filename

\* the text of the page a chunk was cut from
PageOf(chunk) == FileOf(chunk).pages[chunk.metadata.page + 1]

\* the role of every page of the uploads, each tagged on its own
PageRoles ==
    UNION {{<<f.name, p, assigned_role(f.pages[p], f.name)>> : p \in 1..Len(f.pages)} :
             f \in UNION {Range(u) : u \in SplitUploads}}

RoleOfPage(chunk) ==
    (CHOOSE t \in PageRoles :
        t[1] = chunk.metadata.filename /\ t[2] = chunk.metadata.page + 1)[3]

\* the chunk carries the filename of its source and the role of its page
WellTagged(chunk) ==
    /\ {"role", "filename"} \subseteq DOMAIN chunk.metadata
    /\ chunk.metadata.filename = basename(chunk.metadata.source)
    /\ \E f \in dir_files : f.name = chunk.metadata.filename
    /\ chunk.metadata.role = RoleOfPage(chunk)

\* C21: every chunk of process_pdfs has one role and one filename, the
\* filename of its source file and the role assigned to the page it was cut
\* from, and indexing, retrieval and the lookups hand the chunks on with the
\* role and filename they were given
C21_RoleAndFilenameAreFixed ==
    /\ \A i \in 1..Len(run_chunks) : WellTagged(run_chunks[i])
    /\ JustProcessed => vectorstore.docs = run_chunks
    /\ \A s \in 1..Len(searches) :
          \A doc \in Returned(searches[s]) : doc \in Range(vectorstore.docs)
    /\ info # NoInfo =>
          \E i \in 1..Len(vectorstore.docs) :
              /\ vectorstore.docs[i].metadata.filename = info[1].filename
              /\ vectorstore.docs[i].metadata.role = info[1].role

\* the long page has been cut into two chunks of the role of the page, the
\* second of which holds no keyword of its own, and a lookup has returned them
C21_Witness ==
    /\ Len(run_chunks) = 2
    /\ run_chunks[1].metadata.filename = <<"l","o","n","g",".","p","d","f">>
    /\ run_chunks[2].metadata.role = "DevOps Engineer"
    /\ assigned_role(run_chunks[2].page_content, <<>>) = UnknownRole
    /\ selected_role = "DevOps Engineer"
    /\ resumes # EmptyMapping
    /\ \E s \in 1..Len(searches) : Returned(searches[s]) = Range(run_chunks)


\* the chunks of the list that were cut from the same page as the chunk
SamePage(chunks, chunk) ==
    SelectSeq(chunks, LAMBDA c : /\ c.metadata.source = chunk.metadata.source
                                 /\ c.metadata.page = chunk.metadata.page)

\* two chunks, each the whole of its page, with the same text and filename
SameTextAndFilename(list1, c1, list2, c2) ==
    /\ Len(SamePage(list1, c1)) = 1
    /\ Len(SamePage(list2, c2)) = 1
    /\ c1.page_content = c2.page_content
    /\ c1.metadata.filename = c2.metadata.filename

\* C22: tagging is deterministic and pure: a page with the same text and
\* filename has the same role in the index of an earlier run and in the
\* chunks of the current run, whatever else was in either batch, and tagging
\* has left the text, source and page number of the document as loaded
C22_TaggingIsDeterministicAndPure ==
    /\ \A i \in 1..Len(vectorstore.docs), j \in 1..Len(run_chunks) :
          SameTextAndFilename(vectorstore.docs, vectorstore.docs[i],
                              run_chunks, run_chunks[j])
              => vectorstore.docs[i].metadata.role = run_chunks[j].metadata.role
    /\ \A j \in 1..Len(run_chunks) :
          LET chunk == run_chunks[j]
          IN  /\ DOMAIN chunk.metadata = {"source", "page", "filename", "role"}
              /\ \E f \in dir_files :
                    /\ chunk.metadata.source = os_path_join(resume_dir, f.name)
                    /\ chunk.metadata.page + 1 \in 1..Len(f.pages)
                    /\ Len(SamePage(run_chunks, chunk)) = 1
                          => chunk.page_content = strip(f.pages[chunk.metadata.page + 1])

\* the session's index is that of a run on dana.pdf alone, and a later run,
\* which failed after process_pdfs, has tagged dana.pdf after alice.pdf
C22_Witness ==
    /\ Len(vectorstore.docs) = 1
    /\ vectorstore.docs[1].metadata.filename = <<"d","a","n","a",".","p","d","f">>
    /\ Len(run_chunks) = 4
    /\ run_chunks[4].metadata.filename = <<"d","a","n","a",".","p","d","f">>
    /\ run_chunks[4].page_content = vectorstore.docs[1].page_content
    /\ run_chunks[3].metadata.role = "Software Engineer"
    /\ run_chunks[4].metadata.role = UnknownRole


\* the texts of the chunks cut from page p of the file, in the order emitted
ChunkTexts(f, p) ==
    LET OfPage(c) == c.metadata.filename = f.name /\ c.metadata.page = p - 1
        cs == SelectSeq(run_chunks, OfPage)
    IN  [i \in 1..Len(cs) |-> cs[i].page_content]

RECURSIVE WithoutOverlaps(_)
\* the chunk texts joined after the first chunk_overlap characters of every
\* chunk but the first are removed
WithoutOverlaps(texts) ==
    IF texts = <<>> THEN <<>>
    ELSE IF Len(texts) = 1 THEN texts[1]
    ELSE LET last == texts[Len(texts)]
         IN  WithoutOverlaps(SubSeq(texts, 1, Len(texts) - 1))
             \o SubSeq(last, chunk_overlap + 1, Len(last))

\* C23: every page with non-empty text gives at least one chunk, each of at
\* most chunk_size characters, in text order, and the chunk texts joined
\* without their overlaps of chunk_overlap characters are the text of the page
C23_SegmentationReproducesText ==
    processed_files # <<>> =>
        \A f \in dir_files : \A p \in 1..Len(f.pages) :
            f.pages[p] # <<>> =>
                LET texts == ChunkTexts(f, p)
                IN  /\ Len(texts) >= 1
                    /\ \A i \in 1..Len(texts) : Len(texts[i]) <= chunk_size
                    /\ WithoutOverlaps(texts) = f.pages[p]


\* ------------------------------------------------- properties of the roles
\* the roles carried by the chunks of the session's index
IndexedRoles ==
    {MetaGet(vectorstore.docs[i].metadata, "role", UnknownRole) :
        i \in 1..Len(vectorstore.docs)}

\* C24: the roles get_all_roles returned to a processing run whose role
\* search did not fail are exactly the roles carried by the indexed chunks
C24_AllRolesOfTheIndex ==
    (JustProcessed /\ all_roles # {}) => all_roles = IndexedRoles


\* ------------------------------------------ properties of the chain type
\* C25: whenever the query tab asks the session's chain, the chain type
\* passed to query_rag is the one the chain was built with, so that an
\* answering chain's answer and documents are what the tab reads
C25_ChainTypeFitsTheChain ==
    [][chain_calls' # chain_calls =>
          /\ chain_type = qa_chain
          /\ ChainAnswered' => (answer' = "answer" /\ sources' = chain_docs')]_vars


\* ------------------------------------------ properties of the session fields
SessionFields == <<vectorstore, qa_chain, all_roles, initialized>>

\* C26: vectorstore, qa_chain, all_roles and initialized change only in a
\* processing run that ended without an error, which leaves the index of
\* that run's chunks and a chain in the session; a run that reports an error
\* leaves the four as they were, initialized never returns to false, and an
\* initialized session has an index and a chain
C26_SessionWrittenOnlyTogether ==
    [][/\ initialized => initialized'
       /\ SessionFields' # SessionFields =>
             /\ st_errors' = <<>>
             /\ run_chunks' # NoChunks
             /\ vectorstore'.created /\ vectorstore'.docs = run_chunks'
             /\ qa_chain' \in ChainTypes
             /\ initialized'
       /\ initialized' => (vectorstore'.created /\ qa_chain' # NoChain)]_vars

\* a run that failed at the LLM after an earlier run had initialized the
\* session: the session still holds the index of the earlier run
C26_Witness ==
    /\ initialized
    /\ qa_chain = "traditional"
    /\ st_errors = <<"Failed to initialize LLM">>
    /\ vectorstore.created
    /\ run_chunks # NoChunks
    /\ vectorstore.docs # run_chunks


\* C27: when create_vector_store has failed in a run of an initialized
\* session, the index persisted by the earlier run is intact: it exists and
\* holds the chunks of the session's vectorstore
C27_FailedRebuildKeepsIndex ==
    (initialized /\ st_errors = <<"Failed to create vector store">>) =>
        /\ chroma_db.exists
        /\ chroma_db.docs = vectorstore.docs


\* ------------------------------------------ properties of the upload directory
\* the paths at which the files of an upload are saved, in upload order
PathsOf(uploaded_files) ==
    [i \in 1..Len(uploaded_files) |-> os_path_join(resume_dir, uploaded_files[i].name)]

\* C28: once a processing run has saved its upload, the directory holds
\* exactly the files of that upload and processed_files their paths, and
\* every chunk of the run was cut from one of them
C28_DirectoryHoldsTheUpload ==
    processed_files # <<>> =>
        /\ \E uploaded_files \in SampleUploads :
              /\ dir_files = Range(uploaded_files)
              /\ processed_files = PathsOf(uploaded_files)
        /\ \A i \in 1..Len(run_chunks) :
              run_chunks[i].metadata.source \in Range(processed_files)

\* a run on carol.pdf alone in a session whose index an earlier run built
\* from alice.pdf and bob.pdf
C28_Witness ==
    /\ initialized
    /\ \E i \in 1..Len(vectorstore.docs) :
          vectorstore.docs[i].metadata.filename = <<"b","o","b",".","p","d","f">>
    /\ dir_files = {Blank}
    /\ processed_files = PathsOf(<<Blank>>)


\* C29: a role that get_all_roles listed for the session's index yields a
\* non-empty mapping when get_resume_by_role is asked for it and no search
\* of the call fails
C29_ListedRoleHasResumes ==
    (selected_role \in all_roles /\ ~SomeSearchRaised) => resumes # EmptyMapping


\* ------------------------------------------------- properties of query_rag
\* the key of the second invocation for the key of the first
AlternativeKey(key) == IF key = "query" THEN "question" ELSE "query"

\* C30: query_rag returns for every question after one or two invocations of
\* the chain: the first under the key of the chain type, the second only
\* after the first raised and under the alternative key; when both raise the
\* result is 'Error occurred during query' without sources, and under the
\* modern chain type the value has the keys the tab reads
C30_AtMostTwoInvocations ==
    shown # "idle" =>
        /\ Len(chain_calls) \in {1, 2}
        /\ chain_calls[1].key \in {"query", "input"}
        /\ Len(chain_calls) = 1 => ~chain_calls[1].raised
        /\ Len(chain_calls) = 2 =>
              /\ chain_calls[1].raised
              /\ chain_calls[2].key = AlternativeKey(chain_calls[1].key)
        /\ ~ChainAnswered =>
              /\ shown = "done"
              /\ answer = "Error occurred during query"
              /\ sources = <<>>
              /\ st_errors = <<"Error querying system">>
        /\ ChainAnswered => st_errors = <<>>
        /\ chain_calls[1].key = "input" => shown = "done"

\* both invocations of a modern chain type raised
C30_Witness ==
    /\ shown = "done"
    /\ Len(chain_calls) = 2
    /\ chain_calls[1].key = "input" /\ chain_calls[1].raised
    /\ chain_calls[2].key = "query" /\ chain_calls[2].raised
    /\ answer = "Error occurred during query"
    /\ chain_docs # <<>>
    /\ sources = <<>>

====
